---- MODULE Spec2Model ----
(***************************************************************************)
(* A model of strava.py: the start-up sequence, the tile enumeration, the  *)
(* tile cache, the Overpass retry loop and the per-tile hotspot loop.      *)
(***************************************************************************)
EXTENDS Integers, Sequences, FiniteSets, Bags, TLC

VARIABLES
    args,          \* the parsed command line (argparse namespace)
    threshold,     \* args.minlevel
    min_size,      \* args.size
    pc,            \* position of the program
    exit_status,   \* process exit status once pc = "exit", else None
    outfile,       \* the file named by --geojson: "untouched" or "created"
    con,           \* TRUE once sqlite3.connect has opened the ledger
    ledger,        \* TaskName -> TaskStatus of the tasks database
    geojson,       \* bag of the records printed to geojson_file
    stderr,        \* set of the kinds of message printed to sys.stderr
    cache,         \* tile -> state of its file under /var/cache/strava
    x, y,          \* current tile
    range_x,       \* remaining values of the outer for loop
    range_y,       \* remaining values of the inner for loop
    strava_tile,   \* result of fetch_strava_tile for the current tile
    fetch,         \* what the latest fetch_strava_tile call did
    retries,       \* requests issued by the running overpass_request
    answer,        \* the latest response of the Overpass server
    osm_root,      \* what overpass_request returned
    image,         \* the PIL image of the current tile
    data,          \* the numpy array scanned by the hotspot loop
    found,         \* what the latest iteration of the hotspot loop did
    loaded,        \* the array as line 282 loaded it (history)
    grid,          \* xul, yul, xlr, ylr, offset_x, offset_y and step
    visits,        \* tiles handed to check_strava_tile by this run, in order
    runs,          \* offset argument -> visits of a run that ended normally
    responses,     \* tile -> responses the tile server gave so far (history)
    element,       \* the way or relation of osm_root that is being drawn
    tag,           \* the number of its tags the tag loop has handled
    area,          \* the local area of the way and relation loops
    polygon        \* plot_polygon was called for the element

vars == <<args, threshold, min_size, pc, exit_status, outfile, con, ledger,
          geojson, stderr, cache, x, y, range_x, range_y, strava_tile, fetch,
          retries, answer, osm_root, image, data, found, loaded, grid, visits,
          runs, responses, element, tag, area, polygon>>

\* the locals of the way and relation loops of check_strava_tile
tag_vars == <<element, tag, area, polygon>>

\* None of the code; an optional value v is kept as Some(v)
None == <<>>

Some(v) == <<v>>

the(opt) == opt[1]

(***************************************************************************)
(* Bounds of the model.                                                    *)
(***************************************************************************)
MaxPix == 3         \* largest pixel intensity of a tile (a uint8 in the code)
MaxMinSize == 2     \* largest --size argument
MaxCopies == 2      \* copies of one record kept in the bag geojson
SubTile == 2        \* positions in degrees are counted in 1/SubTile of a tile
PartSpan == 3       \* tile columns and rows the areas of SpecPart lie in
MaxTags == 3        \* tags of a way or relation

TileShape == <<2, 3>>           \* data.shape of the tile of SpecTile
StripShape == <<1, 2>>          \* data.shape of the tile of SpecStrip
PixelValues == 0 .. MaxPix
Thresholds == {0, 1, 2}         \* --minlevel arguments
MinSizes == 0 .. MaxMinSize     \* --size arguments

Zoom == 15

OverpassTries == 10             \* range(10) of overpass_request

(***************************************************************************)
(* Rasters are sequences of rows, as image[row][col] in the code; rows and *)
(* columns are counted from 0 as in the code.                              *)
(***************************************************************************)
Rasters(h, w) == [1 .. h -> [1 .. w -> PixelValues]]

Height(img) == Len(img)

Width(img) == Len(img[1])

Pixels(img) == (0 .. Height(img) - 1) \X (0 .. Width(img) - 1)

px(img, p) == img[p[1] + 1][p[2] + 1]

SetPx(img, p, v) == [img EXCEPT ![p[1] + 1][p[2] + 1] = v]

\* np.max(data)
npmax(arr) == CHOOSE m \in {px(arr, p) : p \in Pixels(arr)} :
                  \A p \in Pixels(arr) : px(arr, p) <= m

\* np.unravel_index(np.argmax(data), data.shape): the first maximum in
\* row-major order
argmax(arr) ==
    CHOOSE p \in Pixels(arr) :
        /\ px(arr, p) = npmax(arr)
        /\ \A q \in Pixels(arr) :
               px(arr, q) = npmax(arr) =>
                   \/ p[1] < q[1]
                   \/ (p[1] = q[1] /\ p[2] <= q[2])

(***************************************************************************)
(* Coordinates.  Mercator metres are counted in pixels of the tile, so     *)
(* that pixel_size is 1; a value in degrees is kept as the conversion      *)
(* applied to its argument.                                                *)
(***************************************************************************)
x2lon(e) == [deg |-> "lon", merc |-> e]

y2lat(n) == [deg |-> "lat", merc |-> n]

\* (lat_ul_merc, lon_ul_merc) of get_merc_bbox: northing of the north edge,
\* easting of the west edge
get_merc_bbox(tx, ty, img) == <<0 - ty * Width(img), tx * Width(img)>>

pixel_size == 1

\* coords = (row, col); returns (lon, lat)
reverse_transform(coords, bbox_merc) ==
    <<x2lon(coords[2] * pixel_size + bbox_merc[2]),
      y2lat(bbox_merc[1] - coords[1] * pixel_size)>>

(***************************************************************************)
(* check_trace_area: the recursive size measurement.  Returns the array    *)
(* as the call leaves it and the size it returns.                          *)
(***************************************************************************)
RECURSIVE check_trace_area(_, _, _, _, _, _)
check_trace_area(img, row, col, target_color, minsz, size) ==
    IF row < 0 \/ row >= Height(img) \/ col < 0 \/ col >= Width(img)
    THEN [image |-> img, size |-> size]
    ELSE IF px(img, <<row, col>>) < target_color
    THEN [image |-> img, size |-> size]
    ELSE LET img1 == SetPx(img, <<row, col>>, 0)
             size1 == size + 1
         IN  IF size1 > minsz
             THEN [image |-> img1, size |-> size1]
             ELSE LET down == check_trace_area(img1, row + 1, col, target_color, minsz, size1)
                      up == check_trace_area(down.image, row - 1, col, target_color, minsz, down.size)
                      right == check_trace_area(up.image, row, col + 1, target_color, minsz, up.size)
                      left == check_trace_area(right.image, row, col - 1, target_color, minsz, right.size)
                  IN  left

(***************************************************************************)
(* ImageDraw.floodfill(image, xy, value, thresh=thresh) of the imaging     *)
(* library, for a single-channel image and border=None.                    *)
(***************************************************************************)
Abs(n) == IF n < 0 THEN 0 - n ELSE n

\* the difference taken with its sign
color_diff_signed(c1, c2) == c1 - c2

color_diff(c1, c2) == Abs(c1 - c2)

Adjacent(img, p) ==
    {q \in Pixels(img) : Abs(q[1] - p[1]) + Abs(q[2] - p[2]) = 1}

\* one wave of the fill: the pixels next to the edge whose difference to
\* the background is within thresh get the value and form the next edge
RECURSIVE fill_waves(_, _, _, _, _, _)
fill_waves(img, edge, full_edge, background, value, thresh) ==
    IF edge = {} THEN img
    ELSE LET cand == (UNION {Adjacent(img, p) : p \in edge}) \ full_edge
             new_edge == {q \in cand : color_diff(px(img, q), background) <= thresh}
             img1 == [r \in 1 .. Height(img) |->
                         [c \in 1 .. Width(img) |->
                             IF <<r - 1, c - 1>> \in new_edge THEN value
                             ELSE img[r][c]]]
         IN  fill_waves(img1, new_edge, edge, background, value, thresh)

\* seed = (row, col); the code passes xy = (col, row)
floodfill(img, seed, value, thresh) ==
    LET background == px(img, seed)
    IN  IF color_diff(value, background) <= thresh
        THEN img
        ELSE fill_waves(SetPx(img, seed, value), {seed}, {}, background,
                        value, thresh)

\* thresh=0, the default of the library, instead of maximum - 1
flood_thresh_exact(maximum) == {0}

\* thresh=maximum - 1 with maximum a numpy uint8: at maximum = 0 the result
\* is -1 or wraps to 255, depending on the numpy version
flood_thresh(maximum) == IF maximum = 0 THEN {0 - 1, 255} ELSE {maximum - 1}

(***************************************************************************)
(* The ledger lookup and the record printed for a hotspot.                 *)
(***************************************************************************)
Statuses == {"", "Fixed", "Already_Fixed", "Too_Hard", "Not_an_Issue"}

task_id(tx, ty, max_index) == <<Zoom, tx, ty, max_index[1], max_index[2]>>

\* status = "" unless the ledger is configured and has a row for the id
task_status(id) ==
    IF args.tasks_db # None /\ id \in DOMAIN ledger THEN ledger[id] ELSE ""

\* line 305
warns(status) == status = "Fixed" \/ status = "Already_Fixed"

\* line 309 with the test on Too_Hard left out
emits_too_hard(status) == status # "Not_an_Issue"

\* line 309
emits(status) == status # "Too_Hard" /\ status # "Not_an_Issue"

geojson_line(id, result, maximum, size) ==
    [id |-> id,
     coordinates |-> <<result[1], result[2]>>,
     latitude |-> result[1],
     longitude |-> result[2],
     threshold |-> threshold,
     maximum |-> maximum,
     min_size |-> min_size,
     size |-> size]

\* print(..., file=geojson_file); the bag keeps at most MaxCopies copies
print_geojson(bag, line) ==
    IF CopiesIn(line, bag) < MaxCopies THEN bag (+) SetToBag({line}) ELSE bag

\* line 290 with the comparison slipped to >=
reported_ge(size) == size >= min_size

\* line 290
reported(size) == size > min_size

(***************************************************************************)
(* The hotspot loop of check_strava_tile (lines 282-327).                  *)
(***************************************************************************)
NoArgs == [x |-> None, y |-> None, area |-> None, geojson |-> None,
           tasks_db |-> None, offset |-> None]

NoGrid == [xul |-> 0, yul |-> 0, xlr |-> 0, ylr |-> 0, offset_x |-> 0,
           offset_y |-> 0, step |-> 1]

NoAnswer == [kind |-> "", covered |-> {}]

NoFetch == [tile |-> None, requested |-> FALSE, response |-> "", result |-> None]

NoElement == [kind |-> "", tags |-> <<>>]

NoFound == [maximum |-> 0, max_index |-> <<0, 0>>, size |-> 0, status |-> ""]

\* the statements after the call of check_strava_tile
tile_return ==
    IF args.x # None /\ args.y # None
    THEN /\ pc' = "exit"
         /\ exit_status' = Some(0)
    ELSE /\ pc' = "for_y"
         /\ UNCHANGED exit_status

\* the locals of check_strava_tile that the hotspot loop uses end with the
\* call; after exit(0) of line 392 they are kept as the loop left them
drop_locals ==
    IF args.x # None /\ args.y # None
    THEN UNCHANGED <<answer, osm_root, image, data, found, loaded>>
    ELSE /\ answer' = NoAnswer
         /\ osm_root' = None
         /\ image' = <<>>
         /\ data' = <<>>
         /\ loaded' = <<>>
         /\ found' = NoFound

\* lines 284-289: the loop test holds; find the brightest pixel and measure
\* its area in data
Measure ==
    /\ pc = "loop"
    /\ npmax(data) >= threshold
    /\ LET maximum == npmax(data)
           max_index == argmax(data)
           m == check_trace_area(data, max_index[1], max_index[2], threshold, min_size, 0)
       IN  /\ data' = m.image
           /\ found' = [maximum |-> maximum, max_index |-> max_index,
                        size |-> m.size, status |-> ""]
    /\ pc' = "measured"
    /\ UNCHANGED <<args, threshold, min_size, exit_status, outfile, con,
                   ledger, geojson, stderr, cache, x, y, range_x, range_y,
                   strava_tile, fetch, retries, answer, osm_root, image,
                   loaded, grid, visits, runs, responses>>
    /\ UNCHANGED tag_vars

\* lines 290-327: report the hotspot, erase it from the image and reload
\* data, or do nothing when the area is too small
Report ==
    /\ pc = "measured"
    /\ LET result == reverse_transform(found.max_index, get_merc_bbox(x, y, image))
           id == task_id(x, y, found.max_index)
           status == task_status(id)
           line == geojson_line(id, result, found.maximum, found.size)
       IN  IF reported(found.size)
           THEN /\ stderr' = IF warns(status) THEN stderr \cup {"marked_fixed"} ELSE stderr
                /\ geojson' = IF emits(status) THEN print_geojson(geojson, line) ELSE geojson
                /\ \E thresh \in flood_thresh(found.maximum) :
                       image' = floodfill(image, found.max_index, 0, thresh)
                /\ data' = image'
                /\ found' = [found EXCEPT !.status = status]
           ELSE UNCHANGED <<stderr, geojson, image, data, found>>
    /\ pc' = "loop"
    /\ UNCHANGED <<args, threshold, min_size, exit_status, outfile, con,
                   ledger, cache, x, y, range_x, range_y, strava_tile, fetch,
                   retries, answer, osm_root, loaded, grid, visits, runs,
                   responses>>
    /\ UNCHANGED tag_vars

\* line 284: the loop test fails and check_strava_tile returns
LoopExit ==
    /\ pc = "loop"
    /\ ~(npmax(data) >= threshold)
    /\ tile_return
    /\ drop_locals
    /\ UNCHANGED <<args, threshold, min_size, outfile, con, ledger, geojson,
                   stderr, cache, x, y, range_x, range_y, strava_tile, fetch,
                   retries, grid, visits, runs, responses>>
    /\ UNCHANGED tag_vars

(***************************************************************************)
(* The start-up sequence (lines 377-436).                                  *)
(***************************************************************************)
\* deg2num: positions are counted in 1/SubTile of a tile, longitudes from
\* the west edge of tile column 0 and latitudes (<= 0) from the north edge
\* of tile row 0, so that ytile falls as the latitude grows
deg2num(lat_deg, lon_deg) == <<lon_deg \div SubTile, (0 - lat_deg) \div SubTile>>

\* range(start, stop, step) as the sequence of its values
RECURSIVE Range(_, _, _)
Range(start, stop, step) ==
    IF (step > 0 /\ start >= stop) \/ (step < 0 /\ start <= stop) THEN <<>>
    ELSE <<start>> \o Range(start + step, stop, step)

\* lines 422-436 with the offsets of 2 set as those of 1
offsets_same(offset) ==
    IF offset = None THEN [offset_x |-> 0, offset_y |-> 0, step |-> 1]
    ELSE IF the(offset) = 1 \/ the(offset) = 2
    THEN [offset_x |-> 0, offset_y |-> 1, step |-> 2]
    ELSE IF the(offset) = 3 THEN [offset_x |-> 1, offset_y |-> 1, step |-> 2]
    ELSE [offset_x |-> 0, offset_y |-> 0, step |-> 2]

\* lines 422-436
offsets(offset) ==
    IF offset = None THEN [offset_x |-> 0, offset_y |-> 0, step |-> 1]
    ELSE IF the(offset) = 1 THEN [offset_x |-> 0, offset_y |-> 1, step |-> 2]
    ELSE IF the(offset) = 2 THEN [offset_x |-> 1, offset_y |-> 0, step |-> 2]
    ELSE IF the(offset) = 3 THEN [offset_x |-> 1, offset_y |-> 1, step |-> 2]
    ELSE [offset_x |-> 0, offset_y |-> 0, step |-> 2]

\* lines 412-436 without ylr = ylr - 1 of line 415
make_grid_open(bbox_area, offset) ==
    LET ul == deg2num(bbox_area[2], bbox_area[1])
        lr == deg2num(bbox_area[4], bbox_area[3])
        o == offsets(offset)
    IN  [xul |-> ul[1], yul |-> ul[2], xlr |-> lr[1] + 1, ylr |-> lr[2],
         offset_x |-> o.offset_x, offset_y |-> o.offset_y, step |-> o.step]

\* lines 412-415 and 422-436; bbox_area = (minx, miny, maxx, maxy)
make_grid(bbox_area, offset) ==
    LET ul == deg2num(bbox_area[2], bbox_area[1])
        lr == deg2num(bbox_area[4], bbox_area[3])
        o == offsets(offset)
    IN  [xul |-> ul[1], yul |-> ul[2], xlr |-> lr[1] + 1, ylr |-> lr[2] - 1,
         offset_x |-> o.offset_x, offset_y |-> o.offset_y, step |-> o.step]

\* line 438
outer_range(g) == Range(g.xul + g.offset_x, g.xlr, g.step)

\* line 441
inner_range(g) == Range(g.yul - g.offset_y, g.ylr, 0 - g.step)

\* an uncaught exception or exit(1)
die ==
    /\ pc' = "exit"
    /\ exit_status' = Some(1)

\* the locals of check_strava_tile before the call
enter_tile ==
    /\ strava_tile' = None
    /\ fetch' = NoFetch
    /\ retries' = 0
    /\ answer' = NoAnswer
    /\ osm_root' = None
    /\ image' = <<>>
    /\ data' = <<>>
    /\ loaded' = <<>>
    /\ found' = NoFound

\* lines 377-381
CreateOutput ==
    /\ pc = "create_output"
    /\ outfile' = IF args.geojson # None THEN "created" ELSE outfile
    /\ pc' = "connect_db"
    /\ UNCHANGED <<args, threshold, min_size, exit_status, con, ledger,
                   geojson, stderr, cache, x, y, range_x, range_y,
                   strava_tile, fetch, retries, answer, osm_root, image, data,
                   found, loaded, grid, visits, runs, responses>>
    /\ UNCHANGED tag_vars

\* lines 383-386
ConnectLedger ==
    /\ pc = "connect_db"
    /\ con' = (args.tasks_db # None)
    /\ pc' = "dispatch"
    /\ UNCHANGED <<args, threshold, min_size, exit_status, outfile, ledger,
                   geojson, stderr, cache, x, y, range_x, range_y,
                   strava_tile, fetch, retries, answer, osm_root, image, data,
                   found, loaded, grid, visits, runs, responses>>
    /\ UNCHANGED tag_vars

\* lines 388-436
Dispatch ==
    /\ pc = "dispatch"
    /\ IF args.x # None /\ args.y # None
       THEN /\ x' = the(args.x)
            /\ y' = the(args.y)
            /\ visits' = <<<<the(args.x), the(args.y)>>>>
            /\ pc' = "check_tile"
            /\ UNCHANGED <<exit_status, grid, range_x>>
       ELSE IF args.x # None \/ args.y # None
       THEN die /\ UNCHANGED <<x, y, visits, grid, range_x>>
       ELSE IF args.area = None
       THEN die /\ UNCHANGED <<x, y, visits, grid, range_x>>
       ELSE /\ grid' = make_grid(the(args.area).bounds, args.offset)
            /\ range_x' = outer_range(grid')
            /\ pc' = "for_x"
            /\ UNCHANGED <<x, y, visits, exit_status>>
    /\ UNCHANGED <<args, threshold, min_size, outfile, con, ledger, geojson,
                   stderr, cache, range_y, strava_tile, fetch, retries,
                   answer, osm_root, image, data, found, loaded, runs,
                   responses>>
    /\ UNCHANGED tag_vars

(***************************************************************************)
(* The tile enumeration (lines 438-449).                                   *)
(***************************************************************************)
\* line 438, and lines 447-449 when the range is exhausted
ForX ==
    /\ pc = "for_x"
    /\ IF range_x = <<>>
       THEN /\ pc' = "exit"
            /\ exit_status' = Some(0)
            /\ runs' = (args.offset :> visits) @@ runs
            /\ UNCHANGED <<x, range_x, range_y>>
       ELSE /\ x' = Head(range_x)
            /\ range_x' = Tail(range_x)
            /\ range_y' = inner_range(grid)
            /\ pc' = "for_y"
            /\ UNCHANGED <<exit_status, runs>>
    /\ UNCHANGED <<args, threshold, min_size, outfile, con, ledger, geojson,
                   stderr, cache, y, strava_tile, fetch, retries, answer,
                   osm_root, image, data, found, loaded, grid, visits,
                   responses>>
    /\ UNCHANGED tag_vars

\* lines 441-443
ForY ==
    /\ pc = "for_y"
    /\ IF range_y = <<>>
       THEN /\ pc' = "for_x"
            /\ UNCHANGED <<y, range_y, visits, strava_tile, fetch, retries,
                           answer, osm_root, image, data, found, loaded>>
       ELSE /\ y' = Head(range_y)
            /\ range_y' = Tail(range_y)
            /\ visits' = Append(visits, <<x, y'>>)
            /\ pc' = "check_tile"
            /\ enter_tile
    /\ UNCHANGED <<args, threshold, min_size, exit_status, outfile, con,
                   ledger, geojson, stderr, cache, x, range_x, grid, runs,
                   responses>>
    /\ UNCHANGED tag_vars

(***************************************************************************)
(* check_strava_tile up to the hotspot loop (lines 207-282).               *)
(***************************************************************************)
\* polygon_strava.intersects(polygon_area): the area is given with the set
\* of tiles its polygon intersects
intersects(tile, polygon_area) == tile \in polygon_area.tiles

\* lines 209-216
CheckTile ==
    /\ pc = "check_tile"
    /\ IF args.x # None \/ intersects(<<x, y>>, the(args.area))
       THEN pc' = "fetch" /\ UNCHANGED exit_status
       ELSE tile_return
    /\ UNCHANGED <<args, threshold, min_size, outfile, con, ledger, geojson,
                   stderr, cache, x, y, range_x, range_y, strava_tile, fetch,
                   retries, answer, osm_root, image, data, found, loaded,
                   grid, visits, runs, responses>>
    /\ UNCHANGED tag_vars

TileResponses == {"200_png", "200_junk", "200_empty", "404_empty", "404_body",
                  "500", "neterr"}

\* r.content of a response as a cache file
content(response) ==
    IF response = "200_png" THEN "png"
    ELSE IF response \in {"200_junk", "404_body"} THEN "junk"
    ELSE "empty"

\* lines 162-176 with a write added to the handlers of lines 170 and 173
cache_write_always(file, response) ==
    IF response = "neterr" THEN "empty" ELSE content(response)

\* lines 162-176: the cache file after the response
cache_write(file, response) ==
    IF response \in {"200_png", "200_junk", "200_empty"} THEN content(response)
    ELSE IF response \in {"404_empty", "404_body"} THEN content(response)
    ELSE file

\* lines 162-177: the value returned after the response
fetch_result(tile, response) ==
    IF response \in {"200_png", "200_junk", "200_empty"} THEN tile ELSE None

\* fetch_strava_tile and lines 217-219
Fetch ==
    /\ pc = "fetch"
    /\ LET tile == <<x, y>>
       IN  IF cache[tile] # "none"
           THEN /\ fetch' = [tile |-> tile, requested |-> FALSE, response |-> "",
                             result |-> IF cache[tile] # "empty" THEN tile ELSE None]
                /\ UNCHANGED <<cache, responses, stderr>>
           ELSE \E response \in TileResponses :
                /\ fetch' = [tile |-> tile, requested |-> TRUE,
                             response |-> response,
                             result |-> fetch_result(tile, response)]
                /\ cache' = [cache EXCEPT ![tile] = cache_write(@, response)]
                /\ responses' = [responses EXCEPT ![tile] = @ \cup {response}]
                /\ stderr' = IF response \in {"500", "neterr"}
                             THEN stderr \cup {"fetch_error"} ELSE stderr
    /\ strava_tile' = fetch'.result
    /\ IF strava_tile' = None
       THEN tile_return
       ELSE pc' = "open" /\ UNCHANGED exit_status
    /\ UNCHANGED <<args, threshold, min_size, outfile, con, ledger, geojson,
                   x, y, range_x, range_y, retries, answer, osm_root, image,
                   data, found, loaded, grid, visits, runs>>
    /\ UNCHANGED tag_vars

\* the heatmap the tile server holds for a tile
Heatmap(tile) == <<<<MaxPix, 2>>>>

\* Image.open(strava_tile) succeeds on a cache file that holds an image
opens(file) == file = "png"

\* lines 220-226; in the handler, image.size of line 224 is evaluated with
\* image unbound: UnboundLocalError ends the process
OpenImage ==
    /\ pc = "open"
    /\ IF opens(cache[strava_tile])
       THEN /\ image' = Heatmap(strava_tile)
            /\ pc' = "overpass"
            /\ UNCHANGED <<exit_status, stderr>>
       ELSE /\ stderr' = stderr \cup {"invalid_tile", "traceback"}
            /\ die
            /\ UNCHANGED image
    /\ UNCHANGED <<args, threshold, min_size, outfile, con, ledger, geojson,
                   cache, x, y, range_x, range_y, strava_tile, fetch, retries,
                   answer, osm_root, data, found, loaded, grid, visits, runs,
                   responses>>
    /\ UNCHANGED tag_vars

(***************************************************************************)
(* overpass_request (lines 181-202).  A response is well formed when it    *)
(* holds the meta element; its features are kept as the set of pixels of   *)
(* the tile they cover once drawn.                                         *)
(***************************************************************************)
Answers(img) ==
    {[kind |-> "meta", covered |-> c] : c \in SUBSET Pixels(img)}
        \cup {[kind |-> k, covered |-> {}] : k \in {"nometa", "unparsable", "neterr"}}

\* line 197 with the test on the features instead of on meta
well_formed_nonempty(ans) == ans.kind = "meta" /\ ans.covered # {}

\* line 197
well_formed(ans) == ans.kind = "meta"

\* lines 195-199: one pass of the for loop; the counter retries is a local
\* of overpass_request and ends with its return
OverpassRequest ==
    /\ pc = "overpass"
    /\ retries < OverpassTries
    /\ \E ans \in Answers(image) :
        IF ans.kind \in {"unparsable", "neterr"}
        THEN /\ answer' = ans
             /\ retries' = retries + 1
             /\ die
             /\ stderr' = stderr \cup {"traceback"}
             /\ UNCHANGED osm_root
        ELSE IF well_formed(ans)
        THEN /\ osm_root' = Some(ans.covered)
             /\ answer' = ans
             /\ retries' = 0
             /\ pc' = "draw"
             /\ UNCHANGED <<exit_status, stderr>>
        ELSE /\ answer' = ans
             /\ retries' = retries + 1
             /\ UNCHANGED <<pc, exit_status, stderr, osm_root>>
    /\ UNCHANGED <<args, threshold, min_size, outfile, con, ledger, geojson,
                   cache, x, y, range_x, range_y, strava_tile, fetch, image,
                   data, found, loaded, grid, visits, runs, responses>>
    /\ UNCHANGED tag_vars

\* lines 200-202: the for loop is exhausted
OverpassGiveUp ==
    /\ pc = "overpass"
    /\ ~(retries < OverpassTries)
    /\ die
    /\ UNCHANGED <<args, threshold, min_size, outfile, con, ledger, geojson,
                   stderr, cache, x, y, range_x, range_y, strava_tile, fetch,
                   retries, answer, osm_root, image, data, found, loaded,
                   grid, visits, runs, responses>>
    /\ UNCHANGED tag_vars

\* lines 243-277: the features are drawn with colour 0
draw(img, covered) ==
    [r \in 1 .. Height(img) |->
        [c \in 1 .. Width(img) |->
            IF <<r - 1, c - 1>> \in covered THEN 0 ELSE img[r][c]]]

\* lines 243-282
Draw ==
    /\ pc = "draw"
    /\ image' = draw(image, the(osm_root))
    /\ data' = image'
    /\ loaded' = data'
    /\ pc' = "loop"
    /\ UNCHANGED <<args, threshold, min_size, exit_status, outfile, con,
                   ledger, geojson, stderr, cache, x, y, range_x, range_y,
                   strava_tile, fetch, retries, answer, osm_root, found, grid,
                   visits, runs, responses>>
    /\ UNCHANGED tag_vars

(***************************************************************************)
(* The command is run again: a new process, the same cache and ledger.     *)
(***************************************************************************)
fresh ==
    /\ pc' = "create_output"
    /\ exit_status' = None
    /\ outfile' = "untouched"
    /\ con' = FALSE
    /\ geojson' = EmptyBag
    /\ stderr' = {}
    /\ x' = 0
    /\ y' = 0
    /\ range_x' = <<>>
    /\ range_y' = <<>>
    /\ grid' = NoGrid
    /\ visits' = <<>>
    /\ enter_tile

Rerun ==
    /\ pc = "exit"
    /\ fresh
    /\ UNCHANGED <<args, threshold, min_size, ledger, cache, runs, responses>>
    /\ UNCHANGED tag_vars

(***************************************************************************)
(* Spec: the whole program, run on a single tile or on an area.            *)
(***************************************************************************)
Tiles == (0 .. 1) \X (0 .. 1)

\* the area of interest: its bounds (minx, miny, maxx, maxy) and the tiles
\* its polygons intersect (two polygons, in opposite corners of the box)
Area == [bounds |-> <<0, 1 - 2 * SubTile, 2 * SubTile - 1, 0>>,
         tiles |-> {<<0, 1>>, <<1, 0>>}]

\* the ledgers: at most one row, for pixel (0, 0) of tile (0, 0)
Ledgers ==
    {<<>>} \cup {(<<Zoom, 0, 0, 0, 0>> :> st) : st \in Statuses \ {""}}

\* command lines with a configuration error
ErrorArgs ==
    {[x |-> sel[1], y |-> sel[2], area |-> sel[3], geojson |-> g,
      tasks_db |-> db, offset |-> None] :
        sel \in {<<Some(0), None, None>>, <<None, Some(0), Some(Area)>>,
                 <<None, None, None>>},
        g \in {None, Some("out.geojson")},
        db \in {None, Some("tasks.db")}}

\* command lines for one tile
TileArgs ==
    {[x |-> Some(0), y |-> Some(0), area |-> None, geojson |-> None,
      tasks_db |-> db, offset |-> None] : db \in {None, Some("tasks.db")}}

\* command lines for an area
AreaArgs ==
    {[x |-> None, y |-> None, area |-> Some(Area),
      geojson |-> Some("out.geojson"), tasks_db |-> None, offset |-> o] :
        o \in {None, Some(1), Some(3)}}

Init ==
    /\ \/ /\ args \in ErrorArgs \cup AreaArgs
          /\ threshold = 1
          /\ min_size = 1
          /\ ledger = <<>>
       \/ /\ args \in TileArgs
          /\ threshold \in Thresholds \ {0}
          /\ min_size \in MinSizes
          /\ ledger \in Ledgers
          /\ (args.tasks_db = None) => ledger = <<>>
    /\ pc = "create_output"
    /\ exit_status = None
    /\ outfile = "untouched"
    /\ con = FALSE
    /\ geojson = EmptyBag
    /\ stderr = {}
    /\ cache = [t \in Tiles |-> "none"]
    /\ x = 0
    /\ y = 0
    /\ range_x = <<>>
    /\ range_y = <<>>
    /\ strava_tile = None
    /\ fetch = NoFetch
    /\ retries = 0
    /\ answer = NoAnswer
    /\ osm_root = None
    /\ image = <<>>
    /\ data = <<>>
    /\ loaded = <<>>
    /\ found = NoFound
    /\ grid = NoGrid
    /\ visits = <<>>
    /\ runs = <<>>
    /\ responses = [t \in Tiles |-> {}]
    /\ element = NoElement
    /\ tag = 0
    /\ area = FALSE
    /\ polygon = FALSE

Next ==
    \/ CreateOutput
    \/ ConnectLedger
    \/ Dispatch
    \/ ForX
    \/ ForY
    \/ CheckTile
    \/ Fetch
    \/ OpenImage
    \/ OverpassRequest
    \/ OverpassGiveUp
    \/ Draw
    \/ Measure
    \/ Report
    \/ LoopExit
    \/ Rerun

Spec == Init /\ [][Next]_vars

(***************************************************************************)
(* SpecPart: the command is run on one area without offset and then with   *)
(* the offsets 0, 1, 2 and 3.  What check_strava_tile does with a tile is  *)
(* reduced to its outcome for the enumeration: it returns, or the process  *)
(* ends with status 1; a run that ended so is started again.               *)
(***************************************************************************)
\* an area whose bounding box spans the tile columns xa..xb and the tile
\* rows ya..yb
BoxArea(xa, ya, xb, yb) ==
    [bounds |-> <<xa * SubTile, 1 - (yb + 1) * SubTile,
                  (xb + 1) * SubTile - 1, 0 - ya * SubTile>>,
     tiles |-> (xa .. xb) \X (ya .. yb)]

PartAreas ==
    {BoxArea(xa, ya, xb, yb) :
        xa \in 0 .. PartSpan - 1, ya \in 0 .. PartSpan - 1,
        xb \in 0 .. PartSpan - 1, yb \in 0 .. PartSpan - 1}

OffsetArgs == {None} \cup {Some(o) : o \in 0 .. 3}

InitPart ==
    /\ \E a \in PartAreas :
          /\ a.bounds[1] <= a.bounds[3]
          /\ a.bounds[2] <= a.bounds[4]
          /\ args = [x |-> None, y |-> None, area |-> Some(a),
                     geojson |-> Some("out.geojson"), tasks_db |-> None,
                     offset |-> None]
    /\ threshold = 1
    /\ min_size = 1
    /\ ledger = <<>>
    /\ pc = "create_output"
    /\ exit_status = None
    /\ outfile = "untouched"
    /\ con = FALSE
    /\ geojson = EmptyBag
    /\ stderr = {}
    /\ cache = [t \in Tiles |-> "none"]
    /\ x = 0
    /\ y = 0
    /\ range_x = <<>>
    /\ range_y = <<>>
    /\ strava_tile = None
    /\ fetch = NoFetch
    /\ retries = 0
    /\ answer = NoAnswer
    /\ osm_root = None
    /\ image = <<>>
    /\ data = <<>>
    /\ loaded = <<>>
    /\ found = NoFound
    /\ grid = NoGrid
    /\ visits = <<>>
    /\ runs = <<>>
    /\ responses = [t \in Tiles |-> {}]
    /\ element = NoElement
    /\ tag = 0
    /\ area = FALSE
    /\ polygon = FALSE

\* check_strava_tile as the enumeration sees it
TileBody ==
    /\ pc = "check_tile"
    /\ \E ok \in BOOLEAN :
          IF ok THEN pc' = "for_y" /\ UNCHANGED exit_status
          ELSE die
    /\ UNCHANGED <<args, threshold, min_size, outfile, con, ledger, geojson,
                   stderr, cache, x, y, range_x, range_y, strava_tile, fetch,
                   retries, answer, osm_root, image, data, found, loaded,
                   grid, visits, runs, responses>>
    /\ UNCHANGED tag_vars

\* the next command of the campaign
next_offset(offset) == IF offset = None THEN Some(0) ELSE Some(the(offset) + 1)

RerunOffset ==
    /\ pc = "exit"
    /\ IF exit_status = Some(0)
       THEN /\ args.offset # Some(3)
            /\ args' = [args EXCEPT !.offset = next_offset(@)]
       ELSE UNCHANGED args
    /\ fresh
    /\ UNCHANGED <<threshold, min_size, ledger, cache, runs, responses>>
    /\ UNCHANGED tag_vars

NextPart ==
    \/ CreateOutput
    \/ ConnectLedger
    \/ Dispatch
    \/ ForX
    \/ ForY
    \/ TileBody
    \/ RerunOffset

SpecPart == InitPart /\ [][NextPart]_vars

(***************************************************************************)
(* SpecTile: one tile given by -x and -y, no ledger, from the point where  *)
(* data = np.array(image) has been loaded (line 282) with any raster.      *)
(***************************************************************************)
InitShape(shape) ==
    /\ args = [NoArgs EXCEPT !.x = Some(1), !.y = Some(2)]
    /\ threshold \in Thresholds
    /\ min_size \in MinSizes
    /\ pc = "loop"
    /\ exit_status = None
    /\ outfile = "untouched"
    /\ con = FALSE
    /\ ledger = <<>>
    /\ geojson = EmptyBag
    /\ stderr = {}
    /\ cache = [t \in {<<1, 2>>} |-> "png"]
    /\ x = 1
    /\ y = 2
    /\ range_x = <<>>
    /\ range_y = <<>>
    /\ strava_tile = <<1, 2>>
    /\ fetch = [tile |-> <<1, 2>>, requested |-> FALSE, response |-> "",
                result |-> <<1, 2>>]
    /\ retries = 0
    /\ answer = [kind |-> "meta", covered |-> {}]
    /\ osm_root = Some({})
    /\ image \in Rasters(shape[1], shape[2])
    /\ data = image
    /\ loaded = image
    /\ found = NoFound
    /\ grid = NoGrid
    /\ visits = <<>>
    /\ runs = <<>>
    /\ responses = [t \in {<<1, 2>>} |-> {}]
    /\ element = NoElement
    /\ tag = 0
    /\ area = FALSE
    /\ polygon = FALSE

InitTile == InitShape(TileShape)

NextTile == Measure \/ Report \/ LoopExit

SpecTile == InitTile /\ [][NextTile]_vars

(***************************************************************************)
(* SpecStrip: the same loop on a tile of two pixels.  The interpreter runs *)
(* the loop without pause, hence weak fairness of its steps.               *)
(***************************************************************************)
InitStrip == InitShape(StripShape)

SpecStrip == InitStrip /\ [][NextTile]_vars /\ WF_vars(NextTile)

(***************************************************************************)
(* Connected components, for stating the claims.                           *)
(***************************************************************************)
Bright(img, thr) == {p \in Pixels(img) : px(img, p) >= thr}

RECURSIVE Grow(_, _, _)
Grow(img, thr, S) ==
    LET S1 == S \cup {q \in Bright(img, thr) : \E p \in S : q \in Adjacent(img, p)}
    IN  IF S1 = S THEN S ELSE Grow(img, thr, S1)

\* the 4-connected component of pixels >= thr that holds the bright pixel p
Component(img, thr, p) == Grow(img, thr, {p})

Components(img, thr) == {Component(img, thr, p) : p \in Bright(img, thr)}

RecordPixel(r) == <<r.id[4], r.id[5]>>

\* the number of records, copies counted, printed for pixels of the set S
RECURSIVE CountIn(_, _)
CountIn(bag, S) ==
    IF BagToSet(bag) = {} THEN 0
    ELSE LET r == CHOOSE e \in BagToSet(bag) : TRUE
             rest == [e \in BagToSet(bag) \ {r} |-> bag[e]]
         IN  (IF RecordPixel(r) \in S THEN bag[r] ELSE 0) + CountIn(rest, S)

ZeroBackground(img, thr) == \A p \in Pixels(img) : px(img, p) = 0 \/ px(img, p) >= thr

(***************************************************************************)
(* C1: for every raster, every threshold of 0..255 and every minimum size  *)
(* the hotspot loop of a tile terminates: eventually no pixel of data is   *)
(* >= threshold and the loop is left.                                      *)
(***************************************************************************)
C1_LoopTerminates == <>(pc = "exit")

(***************************************************************************)
(* C2: on a raster with a zero background, threshold >= 1 and no ledger,   *)
(* when the loop has ended every component of bright pixels with more than *)
(* min_size pixels has exactly one record, every record lies in such a     *)
(* component, and data holds no pixel >= threshold.                        *)
(***************************************************************************)
C2_Case == ZeroBackground(loaded, threshold) /\ threshold >= 1 /\ args.tasks_db = None

C2_ReportsLargeComponents ==
    (pc = "exit" /\ C2_Case) =>
        /\ \A comp \in Components(loaded, threshold) :
               CountIn(geojson, comp) = IF Cardinality(comp) > min_size THEN 1 ELSE 0
        /\ \A r \in BagToSet(geojson) : RecordPixel(r) \in Bright(loaded, threshold)
        /\ Bright(data, threshold) = {}

\* a tile with a small and a large component has been drained
C2_Witness ==
    /\ pc = "exit"
    /\ C2_Case
    /\ \E c1, c2 \in Components(loaded, threshold) :
           /\ Cardinality(c1) <= min_size
           /\ Cardinality(c2) > min_size
           /\ Cardinality(c2) > 1
    /\ BagToSet(geojson) # {}

(***************************************************************************)
(* C3: a record is printed for a found pixel exactly when its measured     *)
(* size is above min_size and the ledger status of its identifier is       *)
(* neither Too_Hard nor Not_an_Issue (no ledger or no row prints); for     *)
(* Fixed and Already_Fixed a warning is printed as well; no record is ever *)
(* printed for an identifier with status Too_Hard or Not_an_Issue.         *)
(***************************************************************************)
RowStatus(id) ==
    IF args.tasks_db = None \/ id \notin DOMAIN ledger THEN "New" ELSE ledger[id]

Suppressed(id) == RowStatus(id) \in {"Too_Hard", "Not_an_Issue"}

C3_EmissionPolicy ==
    [][pc = "measured" =>
          LET id == <<Zoom, x, y, found.max_index[1], found.max_index[2]>>
              large == found.size > min_size
              fixed == RowStatus(id) \in {"Fixed", "Already_Fixed"}
          IN  /\ (geojson' # geojson) <=> (large /\ ~Suppressed(id))
              /\ (geojson' # geojson) =>
                     \E r \in BagToSet(geojson') :
                         /\ r.id = id
                         /\ r.size = found.size
                         /\ geojson' = geojson (+) SetToBag({r})
              /\ (large /\ fixed) => (geojson' # geojson /\ "marked_fixed" \in stderr')
              /\ ~(large /\ fixed) => stderr' = stderr
              /\ \A r \in BagToSet(geojson') : ~Suppressed(r.id)]_vars

\* a hotspot large enough whose identifier the ledger marks Not_an_Issue
C3_Witness ==
    /\ pc = "loop"
    /\ found.size > min_size
    /\ found.status = "Not_an_Issue"
    /\ geojson = EmptyBag

(***************************************************************************)
(* C4: for one area and zoom, the runs with offset 0, 1, 2 and 3 visit     *)
(* pairwise disjoint sets of tiles whose union is the set of tiles the run *)
(* without offset visits; no run visits a tile twice.                      *)
(***************************************************************************)
Visited(o) == {runs[o][i] : i \in 1 .. Len(runs[o])}

C4_OffsetsPartition ==
    (DOMAIN runs = OffsetArgs) =>
        /\ \A o1, o2 \in OffsetArgs \ {None} :
               o1 # o2 => Visited(o1) \cap Visited(o2) = {}
        /\ UNION {Visited(o) : o \in OffsetArgs \ {None}} = Visited(None)
        /\ \A o \in OffsetArgs : Cardinality(Visited(o)) = Len(runs[o])

\* all five runs have ended normally on a box where every partition has
\* tiles and partition 0 has tiles in two columns and two rows
C4_Witness ==
    /\ DOMAIN runs = OffsetArgs
    /\ \A o \in OffsetArgs : runs[o] # <<>>
    /\ Len(runs[Some(0)]) >= 4

(***************************************************************************)
(* C5: once the tile server has answered 404 for a tile, whatever the body *)
(* of the response, the cache holds a zero-length file for the tile, and   *)
(* every later fetch of the tile issues no request and returns None.       *)
(***************************************************************************)
Got404(tile) == responses[tile] \cap {"404_empty", "404_body"} # {}

C5_AbsentIsCached ==
    [][/\ \A t \in DOMAIN responses' :
              (responses'[t] \cap {"404_empty", "404_body"} # {}) => cache'[t] = "empty"
       /\ (pc = "fetch" /\ Got404(<<x, y>>)) =>
              (~fetch'.requested /\ strava_tile' = None)]_vars

(***************************************************************************)
(* C6: overpass_request issues at most OverpassTries requests for a tile;  *)
(* it returns at the first response that holds the meta element, also with *)
(* zero features, with no further request; when OverpassTries responses    *)
(* were not well formed the process exits with status 1.                   *)
(***************************************************************************)
C6_BoundedRetries ==
    [][pc = "overpass" =>
          /\ retries' <= OverpassTries
          /\ (pc' = "draw") => (retries + 1 <= OverpassTries /\ answer'.kind = "meta")
          /\ (retries < OverpassTries /\ answer'.kind = "meta") =>
                 (pc' = "draw" /\ osm_root' = Some(answer'.covered))
          /\ (answer'.kind # "meta") =>
                 (pc' \in {"overpass", "exit"} /\ osm_root' = None)
          /\ (pc' = "exit") => exit_status' = Some(1)
          /\ (retries = OverpassTries) =>
                 (pc' = "exit" /\ answer' = answer /\ retries' = retries)]_vars

\* ten responses without the meta element: the process has exited
C6_Witness ==
    /\ pc = "exit"
    /\ exit_status = Some(1)
    /\ retries = OverpassTries
    /\ answer.kind = "nometa"

(***************************************************************************)
(* C7: when the payload of a tile cannot be opened as an image,            *)
(* check_strava_tile prints a warning and returns normally: no feature     *)
(* query, no record, and the run goes on with the remaining tiles.         *)
(***************************************************************************)
ReturnedNormally ==
    \/ pc' = "for_y"
    \/ pc' = "exit" /\ exit_status' = Some(0) /\ args.x # None /\ args.y # None

C7_CorruptTileSkipped ==
    [][(pc = "open" /\ ~opens(cache[strava_tile])) =>
          /\ "invalid_tile" \in stderr'
          /\ ReturnedNormally
          /\ geojson' = geojson
          /\ retries' = 0 /\ osm_root' = None]_vars

(***************************************************************************)
(* C8: when a tile fetch fails with a network failure or an HTTP error     *)
(* other than 404, no cache file is written for the tile, so that a later  *)
(* fetch of the tile issues the request again; the tile is skipped with no *)
(* feature query and no record, and the run is not aborted.                *)
(***************************************************************************)
Transient == {"500", "neterr"}

C8_TransientNotCached ==
    [][pc = "fetch" =>
          /\ (fetch'.requested /\ fetch'.response \in Transient) =>
                 /\ cache' = cache
                 /\ cache'[<<x, y>>] = "none"
                 /\ strava_tile' = None
                 /\ ReturnedNormally
                 /\ geojson' = geojson
                 /\ retries' = 0 /\ osm_root' = None
          /\ (responses[<<x, y>>] # {} /\ responses[<<x, y>>] \subseteq Transient) =>
                 fetch'.requested]_vars

\* a tile whose fetch failed with HTTP 500 before is requested again, the
\* request fails again and the run goes on
C8_Witness ==
    /\ pc = "for_y"
    /\ fetch.requested
    /\ fetch.response = "neterr"
    /\ "500" \in responses[fetch.tile]
    /\ cache[fetch.tile] = "none"

(***************************************************************************)
(* C9: on a configuration error (one of -x and -y alone, or neither tile   *)
(* nor area) the program exits with status 1 before any I/O: the output    *)
(* file is not created or truncated, the ledger is not opened, no tile is  *)
(* fetched and no feature query is issued.                                 *)
(***************************************************************************)
ConfigError ==
    \/ (args.x = None) # (args.y = None)
    \/ args.x = None /\ args.y = None /\ args.area = None

C9_NoIOBeforeConfigError ==
    (pc = "exit" /\ ConfigError) =>
        /\ exit_status = Some(1)
        /\ outfile = "untouched"
        /\ ~con
        /\ fetch = NoFetch
        /\ retries = 0 /\ answer = NoAnswer

(***************************************************************************)
(* C10: in every record printed, coordinates = [lon, lat] of the found     *)
(* pixel, latitude is that lat, longitude is that lon, and the identifier  *)
(* is zoom/x/y/row/col of the found pixel.                                 *)
(***************************************************************************)
C10_RecordFields ==
    \A r \in BagToSet(geojson) :
        /\ r.id[1] = Zoom /\ r.id[2] = x /\ r.id[3] = y
        /\ r.coordinates[1].deg = "lon"
        /\ r.coordinates[2].deg = "lat"
        /\ r.latitude = r.coordinates[2]
        /\ r.longitude = r.coordinates[1]

(***************************************************************************)
(* C11: within one tile the maximum of data found at the start of each     *)
(* loop iteration never rises from one iteration to the next, whether the  *)
(* iteration before reported a hotspot or not.                             *)
(***************************************************************************)
\* found.size > 0: found holds the iteration before of this tile
C11_PeaksNonIncreasing ==
    [][(pc = "loop" /\ pc' = "measured" /\ found.size > 0) =>
          found'.maximum <= found.maximum]_vars

(***************************************************************************)
(* C12: the pixels that the measurement of a region too small to report    *)
(* has zeroed in data are never again >= threshold in data for the rest of *)
(* the tile, also after later hotspots have been reported and erased.      *)
(***************************************************************************)
\* A pixel >= threshold in image and below it in data was zeroed by a
\* measurement since the last reload.  While the loop is at its test, or
\* after a measurement that found too little, all of them belong to regions
\* too small to report; after a measurement that found enough, those
\* outside the component of the found pixel do.
TooSmallZeroed ==
    {p \in Pixels(data) :
        /\ px(image, p) >= threshold
        /\ px(data, p) < threshold
        /\ \/ pc = "loop"
           \/ found.size <= min_size
           \/ p \notin Component(image, threshold, found.max_index)}

C12_SmallStaysSuppressed ==
    [][(pc \in {"loop", "measured"} /\ pc' \in {"loop", "measured"}) =>
          \A p \in TooSmallZeroed : px(data', p) < threshold]_vars

(***************************************************************************)
(* C13: one call of check_trace_area from a found pixel with size 0 zeroes *)
(* at most min_size + 1 pixels and returns at most min_size + 1, whatever  *)
(* the raster and the region.                                              *)
(***************************************************************************)
Changed(before, after) == {p \in Pixels(before) : px(before, p) # px(after, p)}

C13_MeasureCapped ==
    [][(pc = "loop" /\ pc' = "measured") =>
          /\ found'.size <= min_size + 1
          /\ Cardinality(Changed(data, data')) <= min_size + 1]_vars

(***************************************************************************)
(* C14: for threshold >= 1, once a region larger than min_size has been    *)
(* found, no pixel of the component of bright pixels that held the found   *)
(* pixel is >= threshold in data in any later iteration, however large the *)
(* component; no two hotspots reported for a tile lie in one component.    *)
(* Without ledger every such region has its record in geojson.             *)
(***************************************************************************)
C14_ComponentErasedForGood ==
    (threshold >= 1 /\ args.tasks_db = None) =>
        /\ \A r \in BagToSet(geojson) :
               /\ geojson[r] = 1
               /\ Component(loaded, threshold, RecordPixel(r))
                      \cap Bright(data, threshold) = {}
        /\ \A r1, r2 \in BagToSet(geojson) :
               r1 # r2 => Component(loaded, threshold, RecordPixel(r1))
                              # Component(loaded, threshold, RecordPixel(r2))

\* the loop has ended after two reports, one of them for a component with
\* more than min_size + 1 pixels
C14_Witness ==
    /\ pc = "exit"
    /\ threshold >= 1
    /\ Cardinality(BagToSet(geojson)) >= 2
    /\ \E r \in BagToSet(geojson) :
           Cardinality(Component(loaded, threshold, RecordPixel(r))) > min_size + 1

(***************************************************************************)
(* C15: the erasure after a found pixel of peak intensity p sets to zero   *)
(* exactly the pixels reachable from the found pixel through 4-connected   *)
(* pixels of intensity >= p - 1 and leaves every other pixel unchanged.    *)
(***************************************************************************)
\* the pixels reachable from S through adjacent pixels of intensity lo..hi
RECURSIVE Reach(_, _, _, _)
Reach(img, lo, hi, S) ==
    LET S1 == S \cup {q \in Pixels(img) :
                         /\ px(img, q) >= lo
                         /\ px(img, q) <= hi
                         /\ \E p \in S : q \in Adjacent(img, p)}
    IN  IF S1 = S THEN S ELSE Reach(img, lo, hi, S1)

Zeroed(img, S) ==
    [r \in 1 .. Height(img) |->
        [c \in 1 .. Width(img) |->
            IF <<r - 1, c - 1>> \in S THEN 0 ELSE img[r][c]]]

C16_EveryLargeComponentReported ==
    (pc = "exit" /\ threshold >= 1 /\ args.tasks_db = None) =>
        \A comp \in Components(loaded, threshold) :
            Cardinality(comp) > min_size => CountIn(geojson, comp) >= 1

(***************************************************************************)
(* C17: the size check_trace_area returns, called with size 0, is the      *)
(* number of pixels it changed to zero; each was >= threshold and is       *)
(* connected to the start pixel through such pixels; every other pixel is  *)
(* unchanged; a size <= min_size is the pixel count of the whole component *)
(* of the start pixel, which is then zeroed as a whole.                    *)
(***************************************************************************)
C17_SizeCountsZeroedPixels ==
    [][(pc = "loop" /\ pc' = "measured") =>
          LET comp == Component(data, threshold, found'.max_index)
              zeroed == Changed(data, data')
          IN  /\ found'.size = Cardinality(zeroed)
              /\ zeroed \subseteq comp
              /\ \A p \in zeroed : px(data', p) = 0
              /\ found'.size <= min_size =>
                     /\ found'.size = Cardinality(comp)
                     /\ zeroed = comp]_vars

(***************************************************************************)
(* C18: in a run on an area without offset every tile of the tile-index    *)
(* bounding box of the area, edge columns and rows included, is visited    *)
(* exactly once, all rows of a column before the next column, and a tile   *)
(* is fetched or a feature query is issued only for a visited tile that    *)
(* intersects the polygon of the area.                                     *)
(***************************************************************************)
\* the tiles that hold a position of the bounding box
BoxTiles(bbox_area) ==
    {deg2num(lat, lon) : lat \in bbox_area[2] .. bbox_area[4],
                         lon \in bbox_area[1] .. bbox_area[3]}

AreaRun == args.x = None /\ args.y = None /\ args.area # None /\ args.offset = None

InTileBody == pc \in {"fetch", "open", "overpass", "draw", "loop", "measured"}

C18_BoxVisitedByColumns ==
    /\ (AreaRun /\ pc = "exit" /\ exit_status = Some(0)) =>
           /\ {visits[i] : i \in 1 .. Len(visits)} = BoxTiles(the(args.area).bounds)
           /\ \A i, j \in 1 .. Len(visits) : i # j => visits[i] # visits[j]
           /\ \A i, j, k \in 1 .. Len(visits) :
                  (i < j /\ j < k /\ visits[i][1] = visits[k][1]) =>
                      visits[j][1] = visits[i][1]
    /\ (AreaRun /\ InTileBody) =>
           /\ visits # <<>>
           /\ <<x, y>> = visits[Len(visits)]
           /\ <<x, y>> \in the(args.area).tiles
    /\ (AreaRun /\ pc # "exit") =>
           \A t \in Tiles : responses[t] # {} => t \in the(args.area).tiles

\* the run has visited the four tiles of the box, has requested the two
\* tiles that intersect the polygons and has ended
C18_Witness ==
    /\ AreaRun
    /\ pc = "exit"
    /\ exit_status = Some(0)
    /\ Len(visits) = 4
    /\ \A t \in the(args.area).tiles : responses[t] # {}

(***************************************************************************)
(* SpecTags: the way loop (lines 244-258) and the relation loop (lines     *)
(* 261-277) of check_strava_tile, an element at a time: the tags of the    *)
(* element are handled in the order the response lists them, then the      *)
(* element is plotted.  The keys of the tags of an element are distinct.   *)
(***************************************************************************)
Tags == {<<"area", "yes">>, <<"area", "no">>, <<"leisure", "pitch">>,
         <<"leisure", "track">>, <<"type", "multipolygon">>,
         <<"highway", "path">>}

TagLists ==
    UNION {{tags \in [1 .. n -> Tags] :
               \A i, j \in 1 .. n : i # j => tags[i][1] # tags[j][1]} :
           n \in 0 .. MaxTags}

Elements == {[kind |-> k, tags |-> tags] : k \in {"way", "relation"}, tags \in TagLists}

\* lines 248-252: the body of the tag loop of a way
way_tag(a, t) ==
    LET a1 == IF \/ t[1] = "area" /\ t[2] = "yes"
                 \/ t[1] = "leisure" /\ t[2] # "track"
              THEN TRUE ELSE a
    IN  IF t[1] = "area" /\ t[2] = "no" THEN FALSE ELSE a1

\* lines 265-271: the body of the tag loop of a relation
relation_tag(a, t) ==
    LET a1 == IF \/ t[1] = "area" /\ t[2] = "yes"
                 \/ t[1] = "leisure" /\ t[2] # "track"
              THEN TRUE ELSE a
        a2 == IF t[1] = "type" /\ t[2] = "multipolygon" THEN TRUE ELSE a1
    IN  IF t[1] = "area" /\ t[2] = "no" THEN FALSE ELSE a2

rest_unchanged ==
    UNCHANGED <<args, threshold, min_size, exit_status, outfile, con, ledger,
                geojson, stderr, cache, x, y, range_x, range_y, strava_tile,
                fetch, retries, answer, osm_root, image, data, found, loaded,
                grid, visits, runs, responses>>

\* lines 244-246 and 261-263: the next element of osm_root; the relations
\* come after the ways
NextElement ==
    /\ pc = "plotted"
    /\ element' \in Elements
    /\ element.kind = "relation" => element'.kind = "relation"
    /\ tag' = 0
    /\ area' = FALSE
    /\ polygon' = FALSE
    /\ pc' = "tags"
    /\ rest_unchanged

\* lines 247-252 and 264-271: one pass of the tag loop
NextTag ==
    /\ pc = "tags"
    /\ tag < Len(element.tags)
    /\ tag' = tag + 1
    /\ area' = IF element.kind = "way"
               THEN way_tag(area, element.tags[tag'])
               ELSE relation_tag(area, element.tags[tag'])
    /\ UNCHANGED <<pc, element, polygon>>
    /\ rest_unchanged

\* lines 253-258 and 272-277: the tags are exhausted, the element is drawn
Plot ==
    /\ pc = "tags"
    /\ tag = Len(element.tags)
    /\ polygon' = area
    /\ pc' = "plotted"
    /\ UNCHANGED <<element, tag, area>>
    /\ rest_unchanged

InitTags ==
    /\ args = [NoArgs EXCEPT !.x = Some(1), !.y = Some(2)]
    /\ threshold = 1
    /\ min_size = 1
    /\ pc = "tags"
    /\ exit_status = None
    /\ outfile = "untouched"
    /\ con = FALSE
    /\ ledger = <<>>
    /\ geojson = EmptyBag
    /\ stderr = {}
    /\ cache = [t \in {<<1, 2>>} |-> "png"]
    /\ x = 1
    /\ y = 2
    /\ range_x = <<>>
    /\ range_y = <<>>
    /\ strava_tile = <<1, 2>>
    /\ fetch = [tile |-> <<1, 2>>, requested |-> FALSE, response |-> "",
                result |-> <<1, 2>>]
    /\ retries = 0
    /\ answer = [kind |-> "meta", covered |-> {}]
    /\ osm_root = Some({})
    /\ image = Heatmap(<<1, 2>>)
    /\ data = <<>>
    /\ loaded = <<>>
    /\ found = NoFound
    /\ grid = NoGrid
    /\ visits = <<>>
    /\ runs = <<>>
    /\ responses = [t \in {<<1, 2>>} |-> {}]
    /\ element \in {e \in Elements : e.kind = "way"}
    /\ tag = 0
    /\ area = FALSE
    /\ polygon = FALSE

NextTags == NextElement \/ NextTag \/ Plot

SpecTags == InitTags /\ [][NextTags]_vars

(***************************************************************************)
(* C19: a way or relation with the tag area=no gets no polygon fill,       *)
(* whatever its other tags and the order of its tags; whether an element   *)
(* is filled depends on the set of its tags only.                          *)
(***************************************************************************)
TagsOf(e) == {e.tags[i] : i \in 1 .. Len(e.tags)}

\* the classification by the set of tags, area=no first
IsArea(kind, S) ==
    /\ <<"area", "no">> \notin S
    /\ \E t \in S :
           \/ t[1] = "area" /\ t[2] = "yes"
           \/ t[1] = "leisure" /\ t[2] # "track"
           \/ kind = "relation" /\ t[1] = "type" /\ t[2] = "multipolygon"

C19_AreaNoOverrides ==
    (pc = "plotted") => (polygon = IsArea(element.kind, TagsOf(element)))

====
